---- MODULE Spec2Model ----
(***************************************************************************)
(* A model of the two modules of the repository:                           *)
(*   sagemaker_training/pytorch_xla.py   (PyTorchXLARunner)                 *)
(*   sagemaker_containers/environment.py (configuration snapshots, tmpdir)  *)
(*                                                                         *)
(* Python strings are TLA+ strings (TLC treats them as sequences of        *)
(* characters: Len, SubSeq, Head, Tail and \o apply to them).  A Python    *)
(* scalar is a record [t, n, s]: t is its type, n its integer value and s  *)
(* its string value.  An operation that can raise returns a record whose   *)
(* field exc names the exception ("" when it returns normally).            *)
(***************************************************************************)
EXTENDS Integers, Sequences, FiniteSets, TLC

VARIABLES
    environ,    \* os.environ: variable name -> Python value (PyNone = not set)
    runner,     \* the launch attempt of the PT-XLA runner and its outcome
    fs,         \* the temporary directories that exist on the filesystem
    scopes,     \* the tmpdir() scopes entered so far, innermost last
    files,      \* the three configuration files under input/config
    session,    \* the boto3 session (its default region)
    PY2,        \* six.PY2: the interpreter is Python 2
    hp,         \* the outcome of the last read_hyperparameters() call
    snapshot,   \* the outcome of the construction of a snapshot
    machine,    \* the container: what nvidia-smi does and the number of CPUs
    lookup      \* the outcome of the last mapping operation on the snapshot

vars ==
    <<environ, runner, fs, scopes, files, session, PY2, hp, snapshot, machine, lookup>>

---------------------------------------------------------------------------
(* Bounds of the model *)

MaxHosts == 3       \* longest host list
MaxGpus == 3        \* largest GPU count
MaxArgs == 1        \* longest argument list of the entry point
MaxScopes == 3      \* tmpdir() scopes entered in one run
MaxLen == 3         \* longest raw hyperparameter value
MaxLines == 2       \* most lines nvidia-smi prints

---------------------------------------------------------------------------
(* Python values *)

PyNone == [t |-> "NoneType", n |-> 0, s |-> ""]
PyStr(s) == [t |-> "str", n |-> 0, s |-> s]
PyInt(n) == [t |-> "int", n |-> n, s |-> ""]
PyBool(b) == [t |-> "bool", n |-> IF b THEN 1 ELSE 0, s |-> ""]

\* str(n) for a natural number n
str(n) == ToString(n)

\* len(v): only sized objects have a length; an int has none
len(v) ==
    IF v.t = "str" THEN [exc |-> "", n |-> Len(v.s)]
    ELSE [exc |-> "TypeError", n |-> 0]

\* 1-based position of the first occurrence of x in the list, 0 when absent
FirstPos(list, x) ==
    IF \E i \in 1..Len(list) : list[i] = x
    THEN CHOOSE i \in 1..Len(list) :
             list[i] = x /\ \A j \in 1..(i - 1) : list[j] # x
    ELSE 0

\* list.index(x): the zero-based position of x, ValueError when x is absent
index(list, x) ==
    IF FirstPos(list, x) = 0 THEN [exc |-> "ValueError", v |-> PyNone]
    ELSE [exc |-> "", v |-> PyInt(FirstPos(list, x) - 1)]

---------------------------------------------------------------------------
(* The process environment *)

RunnerEnv == {"XRT_HOST_ORDINAL", "XRT_SHARD_WORLD_SIZE", "XRT_WORKERS",
              "GPU_NUM_DEVICES", "XRT_MESH_SERVICE_ADDRESS"}

JOB_NAME_ENV == "SAGEMAKER_JOB_NAME"
CURRENT_HOST_ENV == "CURRENT_HOST"
REGION_NAME_ENV == "SAGEMAKER_REGION"
USER_PROGRAM_ENV == "SAGEMAKER_PROGRAM"
SUBMIT_DIR_ENV == "SAGEMAKER_SUBMIT_DIRECTORY"
ENABLE_METRICS_ENV == "SAGEMAKER_ENABLE_CLOUDWATCH_METRICS"
LOG_LEVEL_ENV == "SAGEMAKER_CONTAINER_LOG_LEVEL"
MODEL_SERVER_WORKERS_ENV == "SAGEMAKER_MODEL_SERVER_WORKERS"
MODEL_SERVER_TIMEOUT_ENV == "SAGEMAKER_MODEL_SERVER_TIMEOUT"
USE_NGINX_ENV == "SAGEMAKER_USE_NGINX"
FRAMEWORK_MODULE_ENV == "SAGEMAKER_FRAMEWORK_MODULE"

BASE_PATH_ENV == "BASE_PATH"

SnapshotEnv == {JOB_NAME_ENV, CURRENT_HOST_ENV, REGION_NAME_ENV, USER_PROGRAM_ENV,
                SUBMIT_DIR_ENV, ENABLE_METRICS_ENV, LOG_LEVEL_ENV,
                MODEL_SERVER_WORKERS_ENV, MODEL_SERVER_TIMEOUT_ENV, USE_NGINX_ENV,
                FRAMEWORK_MODULE_ENV, BASE_PATH_ENV}

EnvNames == RunnerEnv \cup SnapshotEnv

\* os.environ.get(name, default)
getenv(env, name, default) == IF env[name] = PyNone THEN default ELSE env[name]

\* an assignment to os.environ that is lost
setenv_Mutant(env, name, value) == [exc |-> "", environ |-> env]

\* os.environ[name] = value: the value must be a str
setenv(env, name, value) ==
    IF value.t = "str" THEN [exc |-> "", environ |-> [env EXCEPT ![name] = value]]
    ELSE [exc |-> "TypeError", environ |-> env]

---------------------------------------------------------------------------
(* sagemaker_training/pytorch_xla.py: PyTorchXLARunner *)
(* The class statement names process.ProcessRunner although the module     *)
(* imports no name process; the class is modelled as the surrounding       *)
(* package defines it, with the base class supplying run and                *)
(* _python_command.                                                         *)

MESH_SERVICE_PORT == 53957
WORKER_PORT == 43857

HostNames == {"algo-" \o str(i) : i \in 1..MaxHosts}

\* the host lists of a training cluster: distinct hosts, at least one
HostLists ==
    UNION {{h \in [1..k -> HostNames] : \A i, j \in 1..k : h[i] = h[j] => i = j}
              : k \in 1..MaxHosts}

ArgLists == UNION {[1..k -> {"--epochs", "10"}] : k \in 0..MaxArgs}

\* what `import torch_xla` and `import torch_xla.distributed.xla_spawn` find
XlaInstalls == {"absent", "no_xla_spawn", "full"}

\* the classifications of _entry_point_type.get
PYTHON_PACKAGE == "PYTHON_PACKAGE"
PYTHON_PROGRAM == "PYTHON_PROGRAM"
COMMAND == "COMMAND"
EntryPointTypes == {PYTHON_PACKAGE, PYTHON_PROGRAM, COMMAND}

\* ProcessRunner._python_command(): the interpreter that runs the toolkit
_python_command == "/usr/bin/python3"

\* "|".join(list)
RECURSIVE join(_, _)
join(sep, list) ==
    IF Len(list) = 0 THEN ""
    ELSE IF Len(list) = 1 THEN list[1]
    ELSE list[1] \o sep \o join(sep, Tail(list))

\* template.format(a, b) for a template with two positional {} fields, given as
\* the text before, between and after the fields
format(template, a, b) ==
    template[1] \o a \o template[2] \o b \o template[3]

\* PyTorchXLARunner.__init__ (env_vars and processes_per_host only reach the
\* base class and are never read by this class)
PyTorchXLARunner__init__(user_entry_point, args, master_hostname, current_host, hosts, num_gpus) ==
    LET self == [exc |-> "",
                 _user_entry_point |-> user_entry_point,
                 _args |-> args,
                 _master_hostname |-> master_hostname,
                 _current_host |-> current_host,
                 _hosts |-> hosts,
                 _num_gpus |-> num_gpus,
                 _num_hosts |-> Len(hosts),
                 _rank |-> PyNone]
        pos == index(hosts, current_host)
    IN  IF pos.exc # "" THEN [self EXCEPT !.exc = pos.exc]
        ELSE IF len(pos.v).exc # "" THEN [self EXCEPT !.exc = len(pos.v).exc]
        ELSE [self EXCEPT !._rank = PyInt(len(pos.v).n)]

\* PyTorchXLARunner.__check_compatibility: the exception it raises, "" for none
__check_compatibility(self, torch_xla) ==
    IF torch_xla = "absent"
    THEN [exc |-> "ModuleNotFoundError", msg |-> "Unable to find PT-XLA"]
    ELSE IF torch_xla = "no_xla_spawn"
    THEN [exc |-> "ModuleNotFoundError",
          msg |-> "Unable to find SageMaker integration code in PT-XLA"]
    ELSE IF ~(self._num_gpus > 1)
    THEN [exc |-> "ValueError", msg |-> "only supported for GPUs"]
    ELSE [exc |-> "", msg |-> ""]

\* PyTorchXLARunner._setup: the exception raised and the environment it leaves
_setup(self, env, torch_xla) ==
    LET chk == __check_compatibility(self, torch_xla)
        address == <<"localservice:", ";", ":" \o str(WORKER_PORT)>>
        workers == [i \in 1..Len(self._hosts) |->
                        format(address, str(i - 1), self._hosts[i])]
        e1 == [env EXCEPT !["XRT_HOST_ORDINAL"] = PyStr(str(self._rank.n))]
        e2 == [e1 EXCEPT !["XRT_SHARD_WORLD_SIZE"] = PyStr(str(self._num_hosts))]
        e3 == [e2 EXCEPT !["XRT_WORKERS"] = PyStr(join("|", workers))]
        e4 == [e3 EXCEPT !["GPU_NUM_DEVICES"] = PyStr(str(self._num_gpus))]
        e5 == IF self._num_hosts > 1
              THEN [e4 EXCEPT !["XRT_MESH_SERVICE_ADDRESS"] =
                        PyStr(self._master_hostname \o ":" \o str(MESH_SERVICE_PORT))]
              ELSE e4
    IN  IF chk.exc # "" THEN [exc |-> chk.exc, msg |-> chk.msg, environ |-> env]
        ELSE [exc |-> "", msg |-> "", environ |-> e5]

\* PyTorchXLARunner.__pytorch_xla_command
__pytorch_xla_command(self) ==
    <<_python_command, "-m", "torch_xla.distributed.xla_spawn", "--num_gpus",
      str(self._num_gpus)>>

\* PyTorchXLARunner._create_command, given the classification of the entry point
_create_command(self, entrypoint_type) ==
    IF entrypoint_type = PYTHON_PACKAGE
    THEN [exc |-> "ClientError", msg |-> "not supported for Python packages",
          cmd |-> <<>>]
    ELSE IF entrypoint_type = PYTHON_PROGRAM
    THEN [exc |-> "", msg |-> "",
          cmd |-> __pytorch_xla_command(self) \o <<self._user_entry_point>>
                      \o self._args]
    ELSE [exc |-> "ClientError", msg |-> "only supported for Python scripts",
          cmd |-> <<>>]

\* The record of a launch attempt: its inputs, the environment it started from
\* (environ0), how far it got (at), the exception that ended it and the command
\* it returned.  NoRunner is the record before the attempt.
NoRunner ==
    [state |-> "new", at |-> "", exc |-> "", msg |-> "", command |-> <<>>,
     torch_xla |-> "", entrypoint_type |-> "", hosts |-> <<>>,
     current_host |-> "", master_hostname |-> "", num_gpus |-> 0,
     args |-> <<>>, user_entry_point |-> "", rank |-> PyNone, num_hosts |-> 0,
     environ0 |-> [v \in EnvNames |-> PyNone]]

\* One launch attempt: the runner is constructed, then the base class's run
\* calls _setup and then _create_command; the first exception ends the attempt.
Launch ==
    /\ runner.state = "new"
    /\ \E hosts \in HostLists, current_host \in HostNames,
          num_gpus \in 0..MaxGpus, args \in ArgLists,
          torch_xla \in XlaInstalls, entrypoint_type \in EntryPointTypes :
         LET self == PyTorchXLARunner__init__("train.py", args, hosts[1],
                                              current_host, hosts, num_gpus)
             s == _setup(self, environ, torch_xla)
             c == _create_command(self, entrypoint_type)
             attempt == [NoRunner EXCEPT
                            !.torch_xla = torch_xla,
                            !.entrypoint_type = entrypoint_type,
                            !.hosts = hosts,
                            !.current_host = current_host,
                            !.master_hostname = hosts[1],
                            !.num_gpus = num_gpus,
                            !.args = args,
                            !.user_entry_point = "train.py",
                            !.rank = self._rank,
                            !.num_hosts = self._num_hosts,
                            !.environ0 = environ]
         IN  IF self.exc # ""
             THEN /\ runner' = [attempt EXCEPT !.state = "raised",
                                   !.at = "__init__", !.exc = self.exc,
                                   !.num_hosts = 0]
                  /\ environ' = environ
             ELSE IF s.exc # ""
             THEN /\ runner' = [attempt EXCEPT !.state = "raised",
                                   !.at = "_setup", !.exc = s.exc, !.msg = s.msg]
                  /\ environ' = s.environ
             ELSE IF c.exc # ""
             THEN /\ runner' = [attempt EXCEPT !.state = "raised",
                                   !.at = "_create_command", !.exc = c.exc,
                                   !.msg = c.msg]
                  /\ environ' = s.environ
             ELSE /\ runner' = [attempt EXCEPT !.state = "returned",
                                   !.at = "run", !.command = c.cmd]
                  /\ environ' = s.environ
    /\ UNCHANGED <<fs, scopes, files, session, PY2, hp, snapshot,
                 machine, lookup>>

---------------------------------------------------------------------------
(* sagemaker_containers/environment.py: reading the configuration files *)

\* A configuration file is [kind, content]: kind is "missing" (absent or
\* unreadable), "malformed" (not JSON) or "ok", and content is what the JSON
\* text of an "ok" file denotes.

\* the character of s at position i, "" past the end
Char(s, i) == IF i >= 1 /\ i <= Len(s) THEN SubSeq(s, i, i) ELSE ""

DigitValue(c) ==
    CASE c = "0" -> 0 [] c = "1" -> 1 [] c = "2" -> 2 [] c = "3" -> 3
      [] c = "4" -> 4 [] c = "5" -> 5 [] c = "6" -> 6 [] c = "7" -> 7
      [] c = "8" -> 8 [] c = "9" -> 9
JsonDigits == {"0", "1", "2", "3", "4", "5", "6", "7", "8", "9"}
JsonWhitespace == {" "}

\* the first position at or after i that holds no whitespace
RECURSIVE SkipWhitespace(_, _)
SkipWhitespace(s, i) ==
    IF Char(s, i) \in JsonWhitespace THEN SkipWhitespace(s, i + 1) ELSE i

\* the first position at or after i that holds no digit
RECURSIVE DigitsEnd(_, _)
DigitsEnd(s, i) ==
    IF Char(s, i) \in JsonDigits THEN DigitsEnd(s, i + 1) ELSE i

\* the position of the first double quote at or after i, 0 when there is none
RECURSIVE QuoteAt(_, _)
QuoteAt(s, i) ==
    IF i > Len(s) THEN 0
    ELSE IF Char(s, i) = "\"" THEN i
    ELSE QuoteAt(s, i + 1)

\* the number a string of digits denotes
RECURSIVE DigitsToInt(_)
DigitsToInt(s) ==
    IF Len(s) = 0 THEN 0
    ELSE 10 * DigitsToInt(SubSeq(s, 1, Len(s) - 1)) + DigitValue(Char(s, Len(s)))

\* the error json.loads raises on text that is not JSON: Python 3 raises
\* JSONDecodeError, Python 2 a plain ValueError whose message tells the cases
DecodeError(py2, message) ==
    [exc |-> IF py2 THEN "ValueError" ELSE "JSONDecodeError",
     msg |-> IF py2 THEN message
             ELSE IF message = "No JSON object could be decoded"
             THEN "Expecting value"
             ELSE message,
     v |-> PyNone]

\* json.loads(v), for texts made of whitespace, unsigned integers and strings
\* without escapes: one value is scanned, then only whitespace may follow
json_loads(v, py2) ==
    IF v.t # "str"
    THEN [exc |-> "TypeError", msg |-> "the JSON object must be str", v |-> PyNone]
    ELSE
    LET s == v.s
        begin == SkipWhitespace(s, 1)
        c == Char(s, begin)
        close == QuoteAt(s, begin + 1)
        \* where the scanned value ends (0: no value could be scanned)
        valueEnd == IF c = "0" THEN begin + 1
                    ELSE IF c \in JsonDigits THEN DigitsEnd(s, begin)
                    ELSE IF c = "\"" /\ close # 0 THEN close + 1
                    ELSE 0
        value == IF c \in JsonDigits
                 THEN PyInt(DigitsToInt(SubSeq(s, begin, valueEnd - 1)))
                 ELSE PyStr(SubSeq(s, begin + 1, close - 1))
    IN  IF c = "\"" /\ close = 0
        THEN DecodeError(py2, "Unterminated string starting at")
        ELSE IF valueEnd = 0
        THEN DecodeError(py2, "No JSON object could be decoded")
        ELSE IF SkipWhitespace(s, valueEnd) # Len(s) + 1
        THEN DecodeError(py2, "Extra data")
        ELSE [exc |-> "", msg |-> "", v |-> value]

\* read_json(path) on the file found at the path
read_json(file, py2) ==
    IF file.kind = "missing"
    THEN [exc |-> "IOError", msg |-> "No such file or directory", v |-> <<>>]
    ELSE IF file.kind = "malformed"
    THEN [exc |-> IF py2 THEN "ValueError" ELSE "JSONDecodeError",
          msg |-> IF py2 THEN "No JSON object could be decoded"
                  ELSE "Expecting value",
          v |-> <<>>]
    ELSE [exc |-> "", msg |-> "", v |-> file.content]

\* read_hyperparameters(): the set of its possible outcomes.  The dict
\* comprehension decodes the values in the dict's iteration order and stops at
\* the first one that fails, which can be any of the failing ones.
read_hyperparameters(file, py2) ==
    LET raw == read_json(file, py2)
        hyperparameters == raw.v
        failing == {k \in DOMAIN hyperparameters :
                       json_loads(hyperparameters[k], py2).exc # ""}
        returns(value) == [state |-> "returned", exc |-> "", msg |-> "",
                           value |-> value]
        raises(e) == [state |-> "raised", exc |-> e.exc, msg |-> e.msg,
                      value |-> <<>>]
        \* the except clauses, for the exception e of the comprehension
        handled(e) ==
            IF e.exc = "TypeError" \/ (~py2 /\ e.exc = "JSONDecodeError")
            THEN returns(hyperparameters)
            ELSE IF e.exc = "ValueError"
            THEN IF e.msg = "No JSON object could be decoded"
                 THEN returns(hyperparameters)
                 ELSE raises(e)
            ELSE raises(e)
    IN  IF raw.exc # "" THEN {raises(raw)}
        ELSE IF failing = {}
        THEN {returns([k \in DOMAIN hyperparameters |->
                          json_loads(hyperparameters[k], py2).v])}
        ELSE {handled(json_loads(hyperparameters[k], py2)) : k \in failing}

NoResult == [state |-> "none", exc |-> "", msg |-> "", value |-> <<>>]

\* a call of read_hyperparameters()
ReadHyperparameters ==
    /\ hp.state = "none"
    /\ hp' \in read_hyperparameters(files.hyperparameters, PY2)
    /\ UNCHANGED <<environ, runner, fs, scopes, files, session, PY2, snapshot,
                 machine, lookup>>

---------------------------------------------------------------------------
(* sagemaker_containers/environment.py: paths and snapshots *)

\* os.path.join(a, b) on POSIX: an absolute b replaces a; otherwise the two are
\* joined by one separator unless a is empty or already ends with one
os_path_join(a, b) ==
    IF Char(b, 1) = "/" THEN b
    ELSE IF a = "" \/ Char(a, Len(a)) = "/" THEN a \o b
    ELSE a \o "/" \o b

\* the module-level paths, computed from the environment the module is
\* imported in (no operation of the module writes BASE_PATH afterwards)
BASE_PATH(env) == getenv(env, BASE_PATH_ENV, PyStr(os_path_join("/opt", "ml"))).s
MODEL_PATH(env) == os_path_join(BASE_PATH(env), "model")
INPUT_PATH(env) == os_path_join(BASE_PATH(env), "input")
INPUT_DATA_PATH(env) == os_path_join(INPUT_PATH(env), "data")
INPUT_CONFIG_PATH(env) == os_path_join(INPUT_PATH(env), "config")
OUTPUT_PATH(env) == os_path_join(BASE_PATH(env), "output")
OUTPUT_DATA_PATH(env) == os_path_join(OUTPUT_PATH(env), "data")

USER_PROGRAM_PARAM == "sagemaker_program"
SUBMIT_DIR_PARAM == "sagemaker_submit_directory"
ENABLE_METRICS_PARAM == "sagemaker_enable_cloudwatch_metrics"
LOG_LEVEL_PARAM == "sagemaker_container_log_level"
JOB_NAME_PARAM == "sagemaker_job_name"
DEFAULT_MODULE_NAME_PARAM == "default_user_module_name"
REGION_NAME_PARAM == "sagemaker_region"

SAGEMAKER_HYPERPARAMETERS ==
    {USER_PROGRAM_PARAM, SUBMIT_DIR_PARAM, ENABLE_METRICS_PARAM, REGION_NAME_PARAM,
     LOG_LEVEL_PARAM, JOB_NAME_PARAM, DEFAULT_MODULE_NAME_PARAM}

read_resource_config(fls, py2) == read_json(fls.resourceconfig, py2)

\* read_input_data_config giving no channel when the file cannot be read
read_input_data_config_Mutant(fls, py2) ==
    IF fls.inputdataconfig.kind = "ok" THEN read_json(fls.inputdataconfig, py2)
    ELSE [exc |-> "", msg |-> "", v |-> <<>>]

read_input_data_config(fls, py2) == read_json(fls.inputdataconfig, py2)

\* channel_path joining the channel to the input directory instead of the
\* data directory under it
channel_path_Mutant(env, channel) == os_path_join(INPUT_PATH(env), channel)

channel_path(env, channel) == os_path_join(INPUT_DATA_PATH(env), channel)

\* str.split(sep) for a separator of one character
RECURSIVE split(_, _)
split(s, sep) ==
    IF \E i \in 1..Len(s) : Char(s, i) = sep
    THEN LET i == CHOOSE i \in 1..Len(s) :
                      Char(s, i) = sep /\ \A j \in 1..(i - 1) : Char(s, j) # sep
         IN  <<SubSeq(s, 1, i - 1)>> \o split(SubSeq(s, i + 1, Len(s)), sep)
    ELSE <<s>>

\* str.startswith(prefix)
startswith(x, prefix) ==
    Len(x) >= Len(prefix) /\ SubSeq(x, 1, Len(prefix)) = prefix

\* subprocess.check_output(cmd).decode('utf-8') for the command nvidia-smi
\* --list-gpus: OSError when there is no such command, CalledProcessError when
\* it exits with a status other than 0, otherwise the text it printed
check_output(nvidia_smi) ==
    IF nvidia_smi.kind = "missing" THEN [exc |-> "OSError", output |-> ""]
    ELSE IF nvidia_smi.kind = "fails"
    THEN [exc |-> "CalledProcessError", output |-> ""]
    ELSE [exc |-> "", output |-> nvidia_smi.output]

\* gpu_count counting every line that begins with GPU, a space after it or not
gpu_count_Mutant(nvidia_smi) ==
    LET out == check_output(nvidia_smi)
        lines == split(out.output, "\n")
    IN  IF out.exc \in {"OSError", "CalledProcessError"} THEN [exc |-> "", v |-> 0]
        ELSE [exc |-> out.exc,
              v |-> Cardinality({i \in 1..Len(lines) : startswith(lines[i], "GPU")})]

\* gpu_count(): the two exceptions of the call are caught and give 0
gpu_count(nvidia_smi) ==
    LET out == check_output(nvidia_smi)
        lines == split(out.output, "\n")
    IN  IF out.exc \in {"OSError", "CalledProcessError"} THEN [exc |-> "", v |-> 0]
        ELSE [exc |-> out.exc,
              v |-> Cardinality({i \in 1..Len(lines) : startswith(lines[i], "GPU ")})]

\* cpu_count(): multiprocessing.cpu_count()
cpu_count(m) == m.cpu_count

\* str.lower() on ASCII letters
Uppercase == "ABCDEFGHIJKLMNOPQRSTUVWXYZ"
Lowercase == "abcdefghijklmnopqrstuvwxyz"

RECURSIVE lower(_)
lower(s) ==
    IF s = "" THEN ""
    ELSE LET c == Char(s, 1)
             up == {i \in 1..Len(Uppercase) : Char(Uppercase, i) = c}
         IN  (IF up = {} THEN c ELSE Char(Lowercase, CHOOSE i \in up : TRUE))
                 \o lower(SubSeq(s, 2, Len(s)))

\* distutils.util.strtobool(val): 1 or 0 for the words it knows, ValueError
\* for any other string
strtobool(val) ==
    IF lower(val) \in {"y", "yes", "t", "true", "on", "1"} THEN [exc |-> "", v |-> 1]
    ELSE IF lower(val) \in {"n", "no", "f", "false", "off", "0"}
    THEN [exc |-> "", v |-> 0]
    ELSE [exc |-> "ValueError", v |-> 0]

\* dict.get that ignores the entry and always returns the default
get_Mutant(dict, key, default) == default

\* dict.get(key, default)
get(dict, key, default) == IF key \in DOMAIN dict THEN dict[key] ELSE default

\* str(v) of a Python scalar
pystr(v) ==
    IF v.t = "str" THEN v.s
    ELSE IF v.t = "int" THEN str(v.n)
    ELSE IF v.t = "bool" THEN (IF v.n = 1 THEN "True" ELSE "False")
    ELSE "None"

\* smc.collections.split_by_criteria(dictionary, keys): the entries whose key is
\* among the keys, and the other entries
split_by_criteria(dictionary, keys) ==
    <<[k \in DOMAIN dictionary \cap keys |-> dictionary[k]],
      [k \in DOMAIN dictionary \ keys |-> dictionary[k]]>>

\* Environment._parse_module_name
_parse_module_name(program_param) ==
    IF program_param.t = "str" /\ program_param.s # ""
           /\ Len(program_param.s) >= 3
           /\ SubSeq(program_param.s, Len(program_param.s) - 2,
                     Len(program_param.s)) = ".py"
    THEN PyStr(SubSeq(program_param.s, 1, Len(program_param.s) - 3))
    ELSE program_param

\* int(v) of a Python int, or of a str of decimal digits
int(v) ==
    IF v.t = "int" THEN [exc |-> "", v |-> v]
    ELSE IF v.t # "str" THEN [exc |-> "TypeError", v |-> PyNone]
    ELSE IF v.s # "" /\ DigitsEnd(v.s, 1) = Len(v.s) + 1
    THEN [exc |-> "", v |-> PyInt(DigitsToInt(v.s))]
    ELSE [exc |-> "ValueError", v |-> PyNone]

\* logging.INFO
logging_INFO == PyInt(20)

\* no snapshot: nothing was constructed yet.  class is the class constructed,
\* environ0 the environment the constructor was called in; a field the class
\* does not have keeps the value it has here
NoSnapshot ==
    [state |-> "none", exc |-> "", at |-> "", class |-> "",
     _current_host |-> PyNone, _num_gpu |-> 0, _num_cpu |-> 0,
     _module_name |-> PyNone, _module_dir |-> PyNone,
     _enable_metrics |-> PyNone, _log_level |-> PyNone,
     _hosts |-> <<>>, _input_dir |-> "", _input_config_dir |-> "",
     _model_dir |-> "", _output_dir |-> "", _hyperparameters |-> <<>>,
     _resource_config |-> <<>>, _input_data_config |-> <<>>,
     _output_data_dir |-> "", _channel_input_dirs |-> <<>>,
     _use_nginx |-> PyNone, _model_server_timeout |-> PyNone,
     _model_server_workers |-> PyNone, _framework_module |-> PyNone,
     environ0 |-> <<>>]

\* Environment.__init__: the snapshot it leaves, or the exception it raises
Environment__init__(env, m) ==
    LET self == [NoSnapshot EXCEPT !.class = "Environment", !.environ0 = env]
        current_host == getenv(env, CURRENT_HOST_ENV, PyNone)
        module_name == getenv(env, USER_PROGRAM_ENV, PyNone)
        module_dir == getenv(env, SUBMIT_DIR_ENV, PyNone)
        enable_metrics == strtobool(getenv(env, ENABLE_METRICS_ENV, PyStr("false")).s)
        log_level == getenv(env, LOG_LEVEL_ENV, logging_INFO)
        gpus == gpu_count(m.nvidia_smi)
    IN  IF enable_metrics.exc # ""
        THEN [self EXCEPT !.state = "raised", !.at = "strtobool",
                          !.exc = enable_metrics.exc]
        ELSE IF gpus.exc # ""
        THEN [self EXCEPT !.state = "raised", !.at = "gpu_count", !.exc = gpus.exc]
        ELSE [self EXCEPT !.state = "returned",
                          !._current_host = current_host,
                          !._num_gpu = gpus.v,
                          !._num_cpu = cpu_count(m),
                          !._module_name = module_name,
                          !._module_dir = module_dir,
                          !._enable_metrics = PyBool(enable_metrics.v = 1),
                          !._log_level = log_level]

\* TrainingEnvironment.__init__: the set of its possible outcomes, each one the
\* snapshot (or the exception) and the environment the constructor leaves
TrainingEnvironment__init__(env, fls, region_name, py2, m) ==
    LET base == Environment__init__(env, m)
        self == [base EXCEPT !.class = "TrainingEnvironment"]
        raised(at, exc, e) ==
            [snapshot |-> [self EXCEPT !.state = "raised", !.at = at, !.exc = exc],
             environ |-> e]
        rc == read_resource_config(fls, py2)
        resource_config == rc.v
        current_host == resource_config.current_host
        hosts == resource_config.hosts
        idc == read_input_data_config(fls, py2)
        input_data_config == idc.v
        rest(h) ==
            LET split_ == split_by_criteria(h.value, SAGEMAKER_HYPERPARAMETERS)
                sagemaker_hyperparameters == split_[1]
                hyperparameters == split_[2]
                sagemaker_region ==
                    get(sagemaker_hyperparameters, REGION_NAME_PARAM, region_name)
                w1 == setenv(env, JOB_NAME_ENV,
                             sagemaker_hyperparameters[JOB_NAME_PARAM])
                w2 == setenv(w1.environ, CURRENT_HOST_ENV, PyStr(current_host))
                w3 == setenv(w2.environ, REGION_NAME_ENV, sagemaker_region)
            IN  IF h.exc # "" THEN raised("read_hyperparameters", h.exc, env)
                ELSE IF JOB_NAME_PARAM \notin DOMAIN sagemaker_hyperparameters
                THEN raised("JOB_NAME_ENV", "KeyError", env)
                ELSE IF w1.exc # "" THEN raised("JOB_NAME_ENV", w1.exc, w1.environ)
                ELSE IF w2.exc # ""
                THEN raised("CURRENT_HOST_ENV", w2.exc, w2.environ)
                ELSE IF w3.exc # ""
                THEN raised("REGION_NAME_ENV", w3.exc, w3.environ)
                ELSE [snapshot |->
                          [self EXCEPT
                              !.state = "returned",
                              !._hosts = hosts,
                              !._input_dir = INPUT_PATH(env),
                              !._input_config_dir = INPUT_CONFIG_PATH(env),
                              !._model_dir = MODEL_PATH(env),
                              !._output_dir = OUTPUT_PATH(env),
                              !._hyperparameters = hyperparameters,
                              !._resource_config = resource_config,
                              !._input_data_config = input_data_config,
                              !._output_data_dir = OUTPUT_DATA_PATH(env),
                              !._channel_input_dirs =
                                  [channel \in DOMAIN input_data_config |->
                                      channel_path(env, channel)],
                              !._current_host = PyStr(current_host),
                              !._module_name =
                                  PyStr(pystr(get(sagemaker_hyperparameters,
                                                  USER_PROGRAM_PARAM, PyNone))),
                              !._module_dir =
                                  PyStr(pystr(get(sagemaker_hyperparameters,
                                                  SUBMIT_DIR_PARAM, PyNone))),
                              !._enable_metrics =
                                  get(sagemaker_hyperparameters, ENABLE_METRICS_PARAM,
                                      PyBool(FALSE)),
                              !._log_level =
                                  get(sagemaker_hyperparameters, LOG_LEVEL_PARAM,
                                      logging_INFO)],
                      environ |-> w3.environ]
    IN  IF base.state = "raised" THEN {[snapshot |-> self, environ |-> env]}
        ELSE IF rc.exc # "" THEN {raised("read_resource_config", rc.exc, env)}
        ELSE IF idc.exc # "" THEN {raised("read_input_data_config", idc.exc, env)}
        ELSE {rest(h) : h \in read_hyperparameters(fls.hyperparameters, py2)}

\* ServingEnvironment.__init__: the snapshot it leaves, or the exception it
\* raises; it reads the environment and the machine, and no file
ServingEnvironment__init__(env, m) ==
    LET base == Environment__init__(env, m)
        self == [base EXCEPT !.class = "ServingEnvironment"]
        use_nginx == strtobool(getenv(env, USE_NGINX_ENV, PyStr("true")).s)
        model_server_timeout == int(getenv(env, MODEL_SERVER_TIMEOUT_ENV, PyStr("60")))
        model_server_workers ==
            int(getenv(env, MODEL_SERVER_WORKERS_ENV, PyInt(cpu_count(m))))
        framework_module == getenv(env, FRAMEWORK_MODULE_ENV, PyStr("server:app"))
    IN  IF base.state = "raised" THEN self
        ELSE IF use_nginx.exc # ""
        THEN [self EXCEPT !.state = "raised", !.at = "strtobool",
                          !.exc = use_nginx.exc]
        ELSE IF model_server_timeout.exc # ""
        THEN [self EXCEPT !.state = "raised", !.at = "MODEL_SERVER_TIMEOUT_ENV",
                          !.exc = model_server_timeout.exc]
        ELSE IF model_server_workers.exc # ""
        THEN [self EXCEPT !.state = "raised", !.at = "MODEL_SERVER_WORKERS_ENV",
                          !.exc = model_server_workers.exc]
        ELSE [self EXCEPT !._use_nginx = PyBool(use_nginx.v = 1),
                          !._model_server_timeout = model_server_timeout.v,
                          !._model_server_workers = model_server_workers.v,
                          !._framework_module = framework_module]

\* Environment() is constructed
ConstructEnvironment ==
    /\ snapshot.state = "none"
    /\ snapshot' = Environment__init__(environ, machine)
    /\ UNCHANGED <<environ, runner, fs, scopes, files, session, PY2, hp,
                 machine, lookup>>

\* TrainingEnvironment() is constructed
ConstructTraining ==
    /\ snapshot.state = "none"
    /\ \E r \in TrainingEnvironment__init__(environ, files, session, PY2, machine) :
         /\ snapshot' = r.snapshot
         /\ environ' = r.environ
    /\ UNCHANGED <<runner, fs, scopes, files, session, PY2, hp,
                 machine, lookup>>

\* ServingEnvironment() is constructed
ConstructServing ==
    /\ snapshot.state = "none"
    /\ snapshot' = ServingEnvironment__init__(environ, machine)
    /\ UNCHANGED <<environ, runner, fs, scopes, files, session, PY2, hp,
                 machine, lookup>>

---------------------------------------------------------------------------
(* sagemaker_containers/environment.py: the snapshot as a mapping *)

EnvironmentProperties ==
    {"current_host", "num_gpu", "num_cpu", "module_name", "module_dir",
     "enable_metrics", "log_level"}

TrainingProperties ==
    {"hosts", "input_dir", "input_config_dir", "model_dir", "output_dir",
     "hyperparameters", "resource_config", "input_data_config", "output_data_dir",
     "channel_input_dirs"}

ServingProperties ==
    {"use_nginx", "model_server_timeout", "model_server_workers", "framework_module"}

\* Environment.properties: the names dir(type(self)) lists whose class
\* attribute is a property
properties(self) ==
    EnvironmentProperties \cup
        (IF self.class = "TrainingEnvironment" THEN TrainingProperties
         ELSE IF self.class = "ServingEnvironment" THEN ServingProperties
         ELSE {})

\* the attributes the constructor of the class assigns on the instance
InstanceAttributes(self) == {"_" \o p : p \in properties(self)}

\* the methods an instance has: those of the class and the ones
\* collections.Mapping adds
Methods ==
    {"properties", "__getitem__", "__len__", "__iter__", "__init__",
     "_parse_module_name", "get", "keys", "items", "values", "__contains__"}

\* what the accessor of a property returns
accessor(self, p) ==
    IF p = "module_name" THEN _parse_module_name(self._module_name)
    ELSE self["_" \o p]

\* getattr(self, k): a property gives the value of its accessor, an instance
\* attribute its value, a method the bound method; any other name raises
getattr(self, k) ==
    IF k \in properties(self) THEN [exc |-> "", value |-> accessor(self, k)]
    ELSE IF k \in InstanceAttributes(self) THEN [exc |-> "", value |-> self[k]]
    ELSE IF k \in Methods
    THEN [exc |-> "", value |-> [t |-> "method", n |-> 0, s |-> k]]
    ELSE [exc |-> "AttributeError", value |-> PyNone]

\* Environment.__getitem__: getattr, with AttributeError turned into KeyError
__getitem__(self, k) ==
    LET r == getattr(self, k)
    IN  IF r.exc = "AttributeError" THEN [exc |-> "KeyError", value |-> PyNone]
        ELSE r

\* Environment.__len__
__len__(self) == Cardinality(properties(self))

\* Environment.__iter__: the keys of the dict it builds from the properties
__iter__(self) == DOMAIN [p \in properties(self) |-> getattr(self, p).value]

NoLookup == [op |-> "", key |-> "", exc |-> "", value |-> PyNone]

\* the keys looked up: every property of the three classes, every attribute
\* their constructors assign, every method, and a name no class has
LookupKeys ==
    LET names == EnvironmentProperties \cup TrainingProperties \cup ServingProperties
    IN  names \cup {"_" \o p : p \in names} \cup Methods \cup {"no_such_field"}

\* snapshot[k]
GetItem ==
    /\ snapshot.state = "returned"
    /\ \E k \in LookupKeys :
         lookup' = [op |-> "__getitem__", key |-> k,
                    exc |-> __getitem__(snapshot, k).exc,
                    value |-> __getitem__(snapshot, k).value]
    /\ UNCHANGED <<environ, runner, fs, scopes, files, session, PY2, hp, snapshot,
                 machine>>

\* len(snapshot)
Length ==
    /\ snapshot.state = "returned"
    /\ lookup' = [op |-> "__len__", key |-> "", exc |-> "",
                  value |-> PyInt(__len__(snapshot))]
    /\ UNCHANGED <<environ, runner, fs, scopes, files, session, PY2, hp, snapshot,
                 machine>>

\* iter(snapshot), run to its end
Iterate ==
    /\ snapshot.state = "returned"
    /\ lookup' = [op |-> "__iter__", key |-> "", exc |-> "",
                  value |-> __iter__(snapshot)]
    /\ UNCHANGED <<environ, runner, fs, scopes, files, session, PY2, hp, snapshot,
                 machine>>

---------------------------------------------------------------------------
(* sagemaker_containers/environment.py: tmpdir *)

\* the random part of the names tempfile.mkdtemp can draw
RandomNames == {"r" \o str(i) : i \in 1..MaxScopes}

\* tempfile.mkdtemp(suffix, prefix, dir): the paths it can create and return,
\* each one a name that does not exist yet
mkdtemp(suffix, prefix, dir) ==
    {dir \o "/" \o prefix \o r \o suffix : r \in RandomNames} \ fs

\* shutil.rmtree(path) on the set of existing directories
rmtree(dirs, path) == dirs \ {path}

\* the innermost scope whose body is running (0 when there is none)
Innermost ==
    IF \E i \in 1..Len(scopes) : scopes[i].pc = "body"
    THEN CHOOSE i \in 1..Len(scopes) :
             scopes[i].pc = "body" /\ \A j \in (i + 1)..Len(scopes) : scopes[j].pc # "body"
    ELSE 0

\* `with tmpdir(...) as tmp:` is entered: the generator runs up to its yield
tmpdir_enter ==
    /\ Len(scopes) < MaxScopes
    /\ \E tmp \in mkdtemp("", "tmp", "/tmp") :
         /\ fs' = fs \cup {tmp}
         /\ scopes' = Append(scopes, [tmp |-> tmp, pc |-> "body"])
    /\ UNCHANGED <<environ, runner, files, session, PY2, hp, snapshot,
                 machine, lookup>>

\* the body of the innermost scope ends normally: the generator is resumed after
\* its yield and removes the directory
tmpdir_exit ==
    /\ Innermost # 0
    /\ fs' = rmtree(fs, scopes[Innermost].tmp)
    /\ scopes' = [scopes EXCEPT ![Innermost].pc = "returned"]
    /\ UNCHANGED <<environ, runner, files, session, PY2, hp, snapshot,
                 machine, lookup>>

\* the body of the innermost scope raises: the exception is thrown into the
\* generator at its yield, which has no handler there, so the generator ends
\* without reaching the statement after the yield
tmpdir_raise ==
    /\ Innermost # 0
    /\ scopes' = [scopes EXCEPT ![Innermost].pc = "raised"]
    /\ UNCHANGED <<fs, environ, runner, files, session, PY2, hp, snapshot,
                 machine, lookup>>

---------------------------------------------------------------------------
(* Specifications *)

NoEnviron == [v \in EnvNames |-> PyNone]
MissingFile == [kind |-> "missing", content |-> <<>>]
MalformedFile == [kind |-> "malformed", content |-> <<>>]
OkFile(content) == [kind |-> "ok", content |-> content]

NoFiles == [hyperparameters |-> MissingFile, resourceconfig |-> MissingFile,
            inputdataconfig |-> MissingFile]

NoNvidiaSmi == [kind |-> "missing", output |-> ""]
NoMachine == [nvidia_smi |-> NoNvidiaSmi, cpu_count |-> 1]

\* the launch of the PT-XLA runner, from any earlier value of its variables
InitRunner ==
    /\ environ \in {[v \in EnvNames |-> IF v \in RunnerEnv THEN e[v] ELSE PyNone]
                       : e \in [RunnerEnv -> {PyNone, PyStr("stale")}]}
    /\ runner = NoRunner
    /\ fs = {}
    /\ scopes = <<>>
    /\ files = NoFiles
    /\ session = PyNone
    /\ PY2 = FALSE
    /\ hp = NoResult
    /\ snapshot = NoSnapshot
    /\ machine = NoMachine
    /\ lookup = NoLookup

NextRunner == Launch

SpecRunner == InitRunner /\ [][NextRunner]_vars

\* the scoped temporary directories
InitTmpdir ==
    /\ environ = NoEnviron
    /\ runner = NoRunner
    /\ fs = {}
    /\ scopes = <<>>
    /\ files = NoFiles
    /\ session = PyNone
    /\ PY2 = FALSE
    /\ hp = NoResult
    /\ snapshot = NoSnapshot
    /\ machine = NoMachine
    /\ lookup = NoLookup

NextTmpdir == tmpdir_enter \/ tmpdir_exit \/ tmpdir_raise

SpecTmpdir == InitTmpdir /\ [][NextTmpdir]_vars

\* the raw values hyperparameters.json can hold: strings over a small alphabet
\* (a digit, the double quote, a letter) and a value that is no string
JsonAlphabet == {"1", "\"", "x"}

RECURSIVE StringsUpTo(_)
StringsUpTo(n) ==
    IF n = 0 THEN {""}
    ELSE StringsUpTo(n - 1) \cup
             {s \o c : s \in StringsUpTo(n - 1), c \in JsonAlphabet}

RawValues == {PyStr(s) : s \in StringsUpTo(MaxLen)} \cup {PyInt(1)}

HyperKeys == {"a", "b"}

HyperFiles ==
    {MissingFile, MalformedFile} \cup
        {OkFile(m) : m \in UNION {[K -> RawValues] : K \in SUBSET HyperKeys}}

\* reading hyperparameters.json, whatever it holds, under either interpreter
InitHyper ==
    /\ environ = NoEnviron
    /\ runner = NoRunner
    /\ fs = {}
    /\ scopes = <<>>
    /\ files \in {[NoFiles EXCEPT !.hyperparameters = f] : f \in HyperFiles}
    /\ session = PyNone
    /\ PY2 \in BOOLEAN
    /\ hp = NoResult
    /\ snapshot = NoSnapshot
    /\ machine = NoMachine
    /\ lookup = NoLookup

NextHyper == ReadHyperparameters

SpecHyper == InitHyper /\ [][NextHyper]_vars


Channels == {"train", "validation"}

\* the metadata inputdataconfig.json holds for a channel
ChannelMetadata == [TrainingInputMode |-> "File", S3DistributionType |-> "FullyReplicated",
                    RecordWrapperType |-> "None"]

InputDataFiles ==
    {MissingFile, MalformedFile} \cup
        {OkFile([c \in C |-> ChannelMetadata]) : C \in SUBSET Channels}

\* the platform writes the hosts sorted and names one of them as current host
Sorted(h) == \A i \in 1..(Len(h) - 1) : \E k \in 1..MaxHosts :
                 h[i] = "algo-" \o str(k) /\ \E m \in (k + 1)..MaxHosts :
                     h[i + 1] = "algo-" \o str(m)

ResourceFiles ==
    {MissingFile, MalformedFile} \cup
        {OkFile([current_host |-> h[i], hosts |-> h]) :
             <<h, i>> \in {x \in HostLists \X (1..MaxHosts) :
                              Sorted(x[1]) /\ x[2] <= Len(x[1])}}

\* hyperparameters.json of a training job: the reserved keys the constructor
\* reads, present or absent, and one hyperparameter of the user
Optional(key, values) == {<<>>} \cup {[k \in {key} |-> v] : v \in values}

Merge(f, g) == [k \in DOMAIN f \cup DOMAIN g |-> IF k \in DOMAIN f THEN f[k] ELSE g[k]]

TrainingHyperFiles ==
    {MissingFile, MalformedFile} \cup
        {OkFile(Merge(Merge(j, r), Merge(m, u))) :
            j \in Optional(JOB_NAME_PARAM, {PyStr("\"job\""), PyStr("1")}),
            r \in Optional(REGION_NAME_PARAM, {PyStr("\"us-west-2\"")}),
            m \in Optional(USER_PROGRAM_PARAM,
                           {PyStr("\"train.py\""), PyStr("\"train\"")}),
            u \in Optional("epochs", {PyStr("10"), PyStr("x"), PyStr("1x")})}

\* the construction of a training snapshot, from any configuration files, any
\* session and any earlier environment
InitTraining ==
    /\ environ \in
           {[v \in EnvNames |->
                IF v = BASE_PATH_ENV THEN b
                ELSE IF v \in {JOB_NAME_ENV, CURRENT_HOST_ENV, REGION_NAME_ENV,
                               USER_PROGRAM_ENV}
                THEN (IF stale THEN PyStr("stale-" \o v) ELSE PyNone)
                ELSE PyNone] :
                b \in {PyNone, PyStr("/mnt/ml/")}, stale \in BOOLEAN}
    /\ runner = NoRunner
    /\ fs = {}
    /\ scopes = <<>>
    /\ files \in [hyperparameters : TrainingHyperFiles,
                  resourceconfig : ResourceFiles,
                  inputdataconfig : InputDataFiles]
    /\ session \in {PyNone, PyStr("eu-west-1")}
    /\ PY2 \in BOOLEAN
    /\ hp = NoResult
    /\ snapshot = NoSnapshot
    /\ machine = [nvidia_smi |-> [kind |-> "ok",
                                   output |-> "GPU 0: Tesla V100 (UUID: GPU-0)\n"],
                  cpu_count |-> 4]
    /\ lookup = NoLookup

NextTraining == ConstructTraining

SpecTraining == InitTraining /\ [][NextTraining]_vars

\* the lines nvidia-smi --list-gpus can print: one per GPU, or a message
SmiLines == {"GPU 0: Tesla V100 (UUID: GPU-0)", "GPUs are lost", "No devices were found"}

\* the texts of at most n lines, each line ended by a newline
RECURSIVE SmiOutputs(_)
SmiOutputs(n) ==
    IF n = 0 THEN {""}
    ELSE SmiOutputs(n - 1) \cup
             {t \o l \o "\n" : t \in SmiOutputs(n - 1), l \in SmiLines}

\* what running nvidia-smi does in the container
NvidiaSmis ==
    {NoNvidiaSmi, [kind |-> "fails", output |-> ""]} \cup
        {[kind |-> "ok", output |-> t] : t \in SmiOutputs(MaxLines)}

\* the construction of a base or serving snapshot in any container and any
\* environment, and the mapping operations on the snapshot
InitSnapshot ==
    /\ environ \in
           {[v \in EnvNames |->
                IF v = CURRENT_HOST_ENV THEN PyStr("algo-1")
                ELSE IF v = USER_PROGRAM_ENV THEN p
                ELSE IF v = ENABLE_METRICS_ENV THEN e
                ELSE IF v = MODEL_SERVER_TIMEOUT_ENV THEN t
                ELSE PyNone] :
                p \in {PyNone, PyStr("train.py"), PyStr("train")},
                e \in {PyNone, PyStr("True"), PyStr("maybe")},
                t \in {PyNone, PyStr("soon")}}
    /\ runner = NoRunner
    /\ fs = {}
    /\ scopes = <<>>
    /\ files = NoFiles
    /\ session = PyNone
    /\ PY2 = FALSE
    /\ hp = NoResult
    /\ snapshot = NoSnapshot
    /\ machine \in [nvidia_smi : NvidiaSmis, cpu_count : {4}]
    /\ lookup = NoLookup

NextSnapshot ==
    ConstructEnvironment \/ ConstructServing \/ GetItem \/ Length \/ Iterate

SpecSnapshot == InitSnapshot /\ [][NextSnapshot]_vars

\* the construction of a training or a serving snapshot where each of the three
\* configuration files is missing, malformed or well-formed
InitConstructors ==
    /\ environ \in
           {[v \in EnvNames |->
                IF v \in {JOB_NAME_ENV, CURRENT_HOST_ENV, REGION_NAME_ENV}
                THEN (IF stale THEN PyStr("stale-" \o v) ELSE PyNone)
                ELSE IF v = MODEL_SERVER_TIMEOUT_ENV THEN t
                ELSE PyNone] :
                stale \in BOOLEAN, t \in {PyNone, PyStr("30")}}
    /\ runner = NoRunner
    /\ fs = {}
    /\ scopes = <<>>
    /\ files \in
           [hyperparameters :
                {MissingFile, MalformedFile,
                 OkFile([k \in {JOB_NAME_PARAM} |-> PyStr("\"job\"")]),
                 OkFile([k \in {JOB_NAME_PARAM, REGION_NAME_PARAM} |->
                            IF k = JOB_NAME_PARAM THEN PyStr("\"job\"")
                            ELSE PyStr("\"us-west-2\"")])},
            resourceconfig :
                {MissingFile, MalformedFile,
                 OkFile([current_host |-> "algo-1", hosts |-> <<"algo-1", "algo-2">>])},
            inputdataconfig :
                {MissingFile, MalformedFile,
                 OkFile([c \in {"train"} |-> ChannelMetadata])}]
    /\ session \in {PyNone, PyStr("eu-west-1")}
    /\ PY2 \in BOOLEAN
    /\ hp = NoResult
    /\ snapshot = NoSnapshot
    /\ machine = NoMachine
    /\ lookup = NoLookup

NextConstructors == ConstructTraining \/ ConstructServing

SpecConstructors == InitConstructors /\ [][NextConstructors]_vars



---------------------------------------------------------------------------
(* Claims about the PT-XLA runner, under SpecRunner *)

Launched == runner.state # "new"

\* the current host of the attempt occurs in its host list
HostKnown == FirstPos(runner.hosts, runner.current_host) # 0

\* the zero-based position of the current host in the host list
Position == FirstPos(runner.hosts, runner.current_host) - 1

\* the runtime and its integration code are installed and there are 2+ GPUs
Compatible == runner.torch_xla = "full" /\ runner.num_gpus > 1

\* the attempt got past _setup
SetupCompleted == runner.at \in {"_create_command", "run"}

\* C1: constructing the runner with a current host that occurs in the host list
\* succeeds, with rank = the zero-based position of the current host and host
\* count = the length of the host list.
C1_RankIsPosition ==
    (Launched /\ HostKnown) =>
        /\ runner.at # "__init__"
        /\ runner.rank = PyInt(Position)
        /\ runner.num_hosts = Len(runner.hosts)

\* C2: for every host list, current host (of the list) and GPU count that pass
\* the compatibility check, the launch gets past the setup step, and the
\* environment then holds XRT_HOST_ORDINAL = rank, XRT_SHARD_WORLD_SIZE = host
\* count and GPU_NUM_DEVICES = GPU count.
C2_SetupEnvironment ==
    (Launched /\ HostKnown /\ Compatible) =>
        /\ SetupCompleted
        /\ environ["XRT_HOST_ORDINAL"] = PyStr(str(Position))
        /\ environ["XRT_SHARD_WORLD_SIZE"] = PyStr(str(Len(runner.hosts)))
        /\ environ["GPU_NUM_DEVICES"] = PyStr(str(runner.num_gpus))

\* the worker list the claim C3 describes: one entry per host, in list order
ExpectedWorkers ==
    join("|", [i \in 1..Len(runner.hosts) |->
                  "localservice:" \o str(i - 1) \o ";" \o runner.hosts[i] \o ":43857"])

\* C3: a launch whose inputs pass the compatibility check gets past the setup
\* step, and XRT_WORKERS is then the pipe-separated list, in host-list order,
\* of one entry localservice:<i>;<host>:43857 per host.
C3_WorkerList ==
    (Launched /\ HostKnown /\ Compatible) =>
        /\ SetupCompleted
        /\ environ["XRT_WORKERS"] = PyStr(ExpectedWorkers)

\* C4: a launch whose inputs pass the compatibility check gets past the setup
\* step, which sets XRT_MESH_SERVICE_ADDRESS to <master>:53957 when there is
\* more than one host and leaves it as it was when there is exactly one.
C4_MeshAddress ==
    (Launched /\ HostKnown /\ Compatible) =>
        /\ SetupCompleted
        /\ IF Len(runner.hosts) > 1
           THEN environ["XRT_MESH_SERVICE_ADDRESS"] =
                    PyStr(runner.master_hostname \o ":53957")
           ELSE environ["XRT_MESH_SERVICE_ADDRESS"] =
                    runner.environ0["XRT_MESH_SERVICE_ADDRESS"]

\* C5: with a GPU count not greater than 1, constructing the runner and running
\* its compatibility check fails in the setup step with the
\* invalid-configuration error (ValueError) whatever the entry point is; with 2
\* or more GPUs and the runtime installed the check passes.
C5_GpuCountCheck ==
    (Launched /\ HostKnown) =>
        /\ runner.num_gpus <= 1 =>
               (runner.state = "raised" /\ runner.at = "_setup"
                    /\ runner.exc = "ValueError")
        /\ Compatible => SetupCompleted

\* C6: with a packaged-module entry point (and inputs that pass the
\* compatibility check) the launch attempt fails with the
\* unsupported-entry-point error (ClientError) and none of the runtime's
\* environment variables has been written by then.
C6_PackageFailsBeforeEnvironment ==
    (Launched /\ HostKnown /\ Compatible
         /\ runner.entrypoint_type = PYTHON_PACKAGE) =>
        /\ runner.state = "raised" /\ runner.exc = "ClientError"
        /\ \A v \in RunnerEnv : environ[v] = runner.environ0[v]

\* C7: a command is returned only for a plain script; a launch whose inputs pass
\* the compatibility check reaches command construction, which for a plain
\* script returns [python, -m, torch_xla.distributed.xla_spawn, --num_gpus,
\* <gpus>, <entry point>] followed by the arguments, and for every other
\* classification raises the unsupported-entry-point error and yields no command.
C7_Command ==
    /\ runner.state = "returned" => runner.entrypoint_type = PYTHON_PROGRAM
    /\ (Launched /\ HostKnown /\ Compatible) =>
           IF runner.entrypoint_type = PYTHON_PROGRAM
           THEN /\ runner.state = "returned"
                /\ runner.command =
                       <<_python_command, "-m", "torch_xla.distributed.xla_spawn",
                         "--num_gpus", str(runner.num_gpus),
                         runner.user_entry_point>> \o runner.args
           ELSE /\ runner.state = "raised" /\ runner.at = "_create_command"
                /\ runner.exc = "ClientError"
                /\ runner.command = <<>>

---------------------------------------------------------------------------
(* Claims about tmpdir, under SpecTmpdir *)

\* C8: the directory of a scope exists while the body of the scope runs and is
\* absent once the scope has ended, whether the body returned or raised.
C8_TmpdirRemoved ==
    \A i \in 1..Len(scopes) :
        /\ scopes[i].pc = "body" => scopes[i].tmp \in fs
        /\ scopes[i].pc \in {"returned", "raised"} =>
               (scopes[i].tmp \notin fs
                    \/ \E j \in 1..Len(scopes) :
                           j # i /\ scopes[j].pc = "body"
                               /\ scopes[j].tmp = scopes[i].tmp)

---------------------------------------------------------------------------
(* Claims about read_hyperparameters, under SpecHyper *)

HyperContent == files.hyperparameters.content

\* every value of the file decodes as JSON
AllDecode ==
    \A k \in DOMAIN HyperContent : json_loads(HyperContent[k], PY2).exc = ""

\* C9: reading hyperparameters is all-or-nothing and never raises on a readable
\* file: when every value decodes the result maps each key to its decoded
\* value, otherwise the result is the raw mapping; the keys are those of the file.
C9_AllOrNothing ==
    (hp.state # "none" /\ files.hyperparameters.kind = "ok") =>
        /\ hp.state = "returned"
        /\ DOMAIN hp.value = DOMAIN HyperContent
        /\ IF AllDecode
           THEN \A k \in DOMAIN HyperContent :
                    hp.value[k] = json_loads(HyperContent[k], PY2).v
           ELSE hp.value = HyperContent

---------------------------------------------------------------------------
(* Claims about the training snapshot, under SpecTraining *)

\* C10: in every constructed training snapshot channel_input_dirs has exactly
\* the keys of the input-data configuration, maps every channel c to
\* <input-data-root>/c, and hosts is the hosts list of resourceconfig.json.
C10_ChannelsAndHosts ==
    snapshot.state = "returned" =>
        /\ DOMAIN snapshot._channel_input_dirs = DOMAIN files.inputdataconfig.content
        /\ \A c \in DOMAIN files.inputdataconfig.content :
               snapshot._channel_input_dirs[c] =
                   INPUT_DATA_PATH(snapshot.environ0) \o "/" \o c
        /\ snapshot._hosts = files.resourceconfig.content.hosts

\* a snapshot was constructed for two channels and a cluster of several hosts
C10_Witness ==
    /\ snapshot.state = "returned"
    /\ DOMAIN snapshot._channel_input_dirs = Channels
    /\ Len(snapshot._hosts) > 1
    /\ snapshot._channel_input_dirs["train"] = "/opt/ml/input/data/train"

---------------------------------------------------------------------------
(* Claims about the snapshot as a mapping, under SpecSnapshot *)

\* C11: lookup by name succeeds exactly for the field names of the snapshot:
\* for every key the mapping enumerates (as many as its length) the lookup
\* returns the value of the field's accessor, and for every other key,
\* internal attributes and methods included, it raises the not-found error.
C11_LookupExactlyFields ==
    /\ lookup.op = "__getitem__" =>
           IF lookup.key \in __iter__(snapshot)
           THEN lookup.exc = "" /\ lookup.value = accessor(snapshot, lookup.key)
           ELSE lookup.exc = "KeyError"
    /\ lookup.op = "__len__" =>
           lookup.value = PyInt(Cardinality(__iter__(snapshot)))

---------------------------------------------------------------------------
(* Claims about the environment a training snapshot leaves, under SpecTraining *)

\* the value read_hyperparameters gives for a key of hyperparameters.json: the
\* decoded value when every value of the file decodes, the raw value otherwise
HyperRead(k) ==
    IF AllDecode THEN json_loads(HyperContent[k], PY2).v ELSE HyperContent[k]

\* C12: after a training snapshot is constructed successfully the environment
\* holds SAGEMAKER_JOB_NAME = the reserved job-name hyperparameter,
\* CURRENT_HOST = the current_host of resourceconfig.json, and SAGEMAKER_REGION
\* = the reserved region hyperparameter when it is supplied and otherwise the
\* default region of the session.
C12_EnvironmentWritten ==
    snapshot.state = "returned" =>
        /\ environ[JOB_NAME_ENV] = HyperRead(JOB_NAME_PARAM)
        /\ environ[CURRENT_HOST_ENV] =
               PyStr(files.resourceconfig.content.current_host)
        /\ environ[REGION_NAME_ENV] =
               IF REGION_NAME_PARAM \in DOMAIN HyperContent
               THEN HyperRead(REGION_NAME_PARAM)
               ELSE session

\* a snapshot was constructed from a file that supplies no region, in an
\* environment that held other values for the three variables
C12_Witness ==
    /\ snapshot.state = "returned"
    /\ REGION_NAME_PARAM \notin DOMAIN HyperContent
    /\ snapshot.environ0[REGION_NAME_ENV] = PyStr("stale-SAGEMAKER_REGION")
    /\ environ[REGION_NAME_ENV] = PyStr("eu-west-1")
    /\ environ[JOB_NAME_ENV] = PyStr("job")
    /\ environ[CURRENT_HOST_ENV] = PyStr("algo-2")

---------------------------------------------------------------------------
(* Claims about GPU detection, under SpecSnapshot *)

\* the number of places of a text where a line begins with GPU and a space
GpuLines(output) ==
    Cardinality({i \in 1..Len(output) :
                    /\ i = 1 \/ Char(output, i - 1) = "\n"
                    /\ SubSeq(output, i, i + 3) = "GPU "})

\* C13: the GPU count never raises: it is 0 when the GPU-listing command is
\* missing or exits with an error, and the number of output lines that begin
\* with `GPU ` when the command succeeds; no construction of a snapshot fails
\* in GPU detection, and a constructed snapshot holds that count.
C13_GpuCountNeverRaises ==
    /\ gpu_count(machine.nvidia_smi).exc = ""
    /\ gpu_count(machine.nvidia_smi).v =
           IF machine.nvidia_smi.kind = "ok"
           THEN GpuLines(machine.nvidia_smi.output)
           ELSE 0
    /\ snapshot.at # "gpu_count"
    /\ snapshot.state = "returned" =>
           snapshot._num_gpu = gpu_count(machine.nvidia_smi).v

\* a snapshot was constructed where the command printed a line for a GPU and
\* a line that begins with GPU but names none
C13_Witness ==
    /\ snapshot.state = "returned"
    /\ machine.nvidia_smi.kind = "ok"
    /\ machine.nvidia_smi.output = "GPU 0: Tesla V100 (UUID: GPU-0)\nGPUs are lost\n"
    /\ snapshot._num_gpu = 1

---------------------------------------------------------------------------
(* Claims about the compatibility check of the runner, under SpecRunner *)

\* the compatibility check of the attempt fails, were it made
CheckFails == runner.torch_xla # "full" \/ runner.num_gpus <= 1

\* C14: the compatibility check of a launch fails with the missing-dependency
\* error (ModuleNotFoundError) when the runtime is not importable, and when
\* the runtime is importable but its integration submodule is not, whatever
\* the GPU count is: both are tested before the GPU count.
C14_MissingDependencyFirst ==
    (Launched /\ HostKnown /\ runner.torch_xla # "full") =>
        /\ runner.state = "raised" /\ runner.at = "_setup"
        /\ runner.exc = "ModuleNotFoundError"
        /\ runner.msg = IF runner.torch_xla = "absent"
                        THEN "Unable to find PT-XLA"
                        ELSE "Unable to find SageMaker integration code in PT-XLA"

---------------------------------------------------------------------------
(* Claims about the configuration files, under SpecConstructors *)

\* one of the three configuration files is missing or malformed
SomeFileBad ==
    \E f \in {"hyperparameters", "resourceconfig", "inputdataconfig"} :
        files[f].kind # "ok"

\* the construction failed with the error of reading a file
FailedReading ==
    /\ snapshot.state = "raised"
    /\ snapshot.exc \in {"IOError", "ValueError", "JSONDecodeError"}
    /\ snapshot.at \in {"read_resource_config", "read_input_data_config",
                        "read_hyperparameters"}

\* C15: whenever hyperparameters.json, resourceconfig.json or
\* inputdataconfig.json is missing or malformed, constructing a training
\* snapshot and constructing a serving snapshot each fail with the propagated
\* I/O or parse error and produce no snapshot.
C15_ConfigFilesFatal ==
    (snapshot.state # "none" /\ SomeFileBad) => FailedReading

\* C15, amended: a missing or malformed configuration file is fatal for the
\* training constructor, which fails with the I/O or parse error of the first
\* bad file it reads and leaves the environment as it was; the serving
\* constructor reads none of the three files and succeeds without them.
C15_TrainingConfigFilesFatal ==
    (snapshot.state # "none" /\ SomeFileBad) =>
        IF snapshot.class = "TrainingEnvironment"
        THEN /\ FailedReading
             /\ snapshot.exc = "IOError" <=>
                    files[IF files.resourceconfig.kind # "ok" THEN "resourceconfig"
                          ELSE IF files.inputdataconfig.kind # "ok"
                          THEN "inputdataconfig"
                          ELSE "hyperparameters"].kind = "missing"
             /\ environ = snapshot.environ0
        ELSE snapshot.state = "returned"

\* a training construction failed on a malformed hyperparameters.json, the
\* other two files being well-formed
C15_Witness ==
    /\ snapshot.class = "TrainingEnvironment"
    /\ files.resourceconfig.kind = "ok" /\ files.inputdataconfig.kind = "ok"
    /\ files.hyperparameters.kind = "malformed"
    /\ snapshot.state = "raised" /\ snapshot.at = "read_hyperparameters"

---------------------------------------------------------------------------
(* Claims about the fields and the writes of a training snapshot, under     *)
(* SpecTraining                                                             *)

\* the program name configured for the snapshot: the reserved hyperparameter
\* of a training snapshot, the environment variable of any other; PyNone when
\* none is configured
ConfiguredProgram ==
    IF snapshot.class = "TrainingEnvironment"
    THEN (IF USER_PROGRAM_PARAM \in DOMAIN HyperContent
          THEN HyperRead(USER_PROGRAM_PARAM)
          ELSE PyNone)
    ELSE snapshot.environ0[USER_PROGRAM_ENV]

\* C16: the module name of a constructed snapshot is the configured program
\* name without its trailing .py when it has one, the configured name itself
\* otherwise, and no value when no program name is configured.
C16_ModuleName ==
    snapshot.state = "returned" =>
        accessor(snapshot, "module_name") =
            IF ConfiguredProgram = PyNone THEN PyNone
            ELSE IF \E stem \in {SubSeq(ConfiguredProgram.s, 1, i) :
                                    i \in 0..Len(ConfiguredProgram.s)} :
                        ConfiguredProgram.s = stem \o ".py"
            THEN PyStr(SubSeq(ConfiguredProgram.s, 1, Len(ConfiguredProgram.s) - 3))
            ELSE ConfiguredProgram

\* the three variables a training construction writes
WrittenByTraining == {JOB_NAME_ENV, CURRENT_HOST_ENV, REGION_NAME_ENV}

\* C18: a training construction writes the environment atomically: when it
\* fails (a missing or malformed file, no job-name hyperparameter, no region
\* from the hyperparameters or the session) none of SAGEMAKER_JOB_NAME,
\* CURRENT_HOST and SAGEMAKER_REGION has been changed, and when it succeeds
\* all three have been written.
C18_AtomicEnvironment ==
    /\ snapshot.state = "raised" =>
           \A v \in WrittenByTraining : environ[v] = snapshot.environ0[v]
    /\ snapshot.state = "returned" =>
           /\ \A v \in WrittenByTraining : environ[v].t = "str"
           /\ environ[JOB_NAME_ENV] = HyperRead(JOB_NAME_PARAM)
           /\ environ[CURRENT_HOST_ENV] = snapshot._current_host
           /\ environ[REGION_NAME_ENV] \in
                  {session} \cup
                      {HyperRead(k) : k \in {REGION_NAME_PARAM} \cap DOMAIN HyperContent}

\* C19: in every constructed training snapshot current_host is the
\* current_host of resourceconfig.json, whatever CURRENT_HOST held before the
\* construction; it equals the CURRENT_HOST variable after the construction
\* and the current_host entry of the snapshot's resource_config.
C19_CurrentHost ==
    snapshot.state = "returned" =>
        /\ accessor(snapshot, "current_host") =
               PyStr(files.resourceconfig.content.current_host)
        /\ accessor(snapshot, "current_host") = environ[CURRENT_HOST_ENV]
        /\ accessor(snapshot, "current_host") =
               PyStr(accessor(snapshot, "resource_config").current_host)

\* a snapshot was constructed for the second host of a cluster in an
\* environment whose CURRENT_HOST named another host
C19_Witness ==
    /\ snapshot.state = "returned"
    /\ snapshot.environ0[CURRENT_HOST_ENV] = PyStr("stale-CURRENT_HOST")
    /\ Environment__init__(snapshot.environ0, machine)._current_host =
           PyStr("stale-CURRENT_HOST")
    /\ accessor(snapshot, "current_host") = PyStr("algo-2")
    /\ environ[CURRENT_HOST_ENV] = PyStr("algo-2")

====
